---- MODULE Spec2Model ----
(***************************************************************************)
(* Model of the Flask/PyMongo articles service:                            *)
(*   src/src/application.py                  create_app (the URL rules)    *)
(*   src/src/controllers/article_controller.py   ArticleController         *)
(*   src/tests/articles_test.py              the expected create response  *)
(* Every HTTP request is handled by its own thread; the only shared state  *)
(* is the `articles` collection of the document store.                     *)
(***************************************************************************)
EXTENDS Integers, Sequences, FiniteSets, TLC

(* ------------------------------ bounds --------------------------------- *)

\* Number of HTTP requests handled in one behaviour (they may overlap).
MaxReq == 2

Reqs == 1..MaxReq

(* --------------------------- JSON / BSON values ------------------------ *)
\* A value is a record [t, n, s]: t is its type, n its number (int, oid),
\* s its characters (str: a sequence of one-character strings) or its
\* elements (list).  "oid" is the store's ObjectId, which JSON cannot carry.

JStr(chars) == [t |-> "str", n |-> 0, s |-> chars]
JInt(k) == [t |-> "int", n |-> k, s |-> <<>>]
JList(elems) == [t |-> "list", n |-> 0, s |-> elems]
JNull == [t |-> "null", n |-> 0, s |-> <<>>]
ObjectId(k) == [t |-> "oid", n |-> k, s |-> <<>>]

EmptyObj == [k \in {} |-> JNull]

\* d[k] = v, as Python's dict item assignment: adds or replaces the key.
Put(d, k, v) == [x \in (DOMAIN d) \cup {k} |-> IF x = k THEN v ELSE d[x]]

\* The dict without key k.
Without(d, k) == [x \in (DOMAIN d) \ {k} |-> d[x]]

HexChar == <<"0", "1", "2", "3", "4", "5", "6", "7",
             "8", "9", "a", "b", "c", "d", "e", "f">>

RECURSIVE HexPad(_, _)
\* k in lowercase hexadecimal, zero-padded to w digits.
HexPad(k, w) ==
    IF w = 0 THEN <<>>
    ELSE Append(HexPad(k \div 16, w - 1), HexChar[(k % 16) + 1])

RECURSIVE Decimal(_)
\* k >= 0 in decimal digits, no padding.
Decimal(k) ==
    IF k < 10 THEN <<HexChar[k + 1]>>
    ELSE Append(Decimal(k \div 10), HexChar[(k % 10) + 1])


\* str(v) of Python, on the values an `_id` can hold: a str is itself, an
\* int its decimal digits, an ObjectId its 24 lowercase hex digits.
Str(v) ==
    CASE v.t = "str" -> v.s
      [] v.t = "int" -> Decimal(v.n)
      [] v.t = "oid" -> HexPad(v.n, 24)
      [] OTHER -> <<>>

(* ------------------------------ inputs --------------------------------- *)

MrStark == <<"M", "r", " ", "S", "t", "a", "r", "k">>

DummyContent ==
    <<"T", "h", "i", "s", " ", "i", "s", " ", "a", " ", "s", "h", "o", "r", "t", " ">> \o
    <<"d", "u", "m", "m", "y", " ", "a", "r", "t", "i", "c", "l", "e">>

\* The request body of test_create_article.
TestBody ==
    [author |-> JStr(MrStark), content |-> JStr(DummyContent),
     tags |-> JList(<<"test">>)]

\* The canonical text of a UUID whose last group is k.
Uuid(k) ==
    HexPad(0, 8) \o <<"-">> \o HexPad(0, 4) \o <<"-">> \o HexPad(0, 4)
        \o <<"-">> \o HexPad(0, 4) \o <<"-">> \o HexPad(k, 12)

NotAUuid == <<"n", "o", "t", "-", "a", "-", "u", "u", "i", "d">>

Body(kind, obj) == [kind |-> kind, obj |-> obj]

NoBody == Body("none", EmptyObj)

\* Request bodies a client may POST: the test's body; with a field beyond
\* author/content/tags; with an empty author; without content; carrying an
\* `_id` (an int, the same digits as a str, a UUID string); text that is not
\* JSON; JSON that is not an object.
BodyInputs ==
    << Body("object", TestBody),
       Body("object", Put(TestBody, "title", JStr(<<"T">>))),
       Body("object", Put(TestBody, "author", JStr(<<>>))),
       Body("object", Without(TestBody, "content")),
       Body("object", Put(TestBody, "_id", JInt(1))),
       Body("object", Put(TestBody, "_id", JStr(<<"1">>))),
       Body("object", Put(TestBody, "_id", JStr(Uuid(1)))),
       Body("malformed", EmptyObj),
       Body("nonobject", EmptyObj) >>

\* What follows "/articles" in the URL: nothing (the collection itself), or
\* "/<arg>" with arg a UUID, a word, or the hex text of the first ObjectId.
PathInputs == << <<>>, Uuid(1), NotAUuid, HexPad(1, 24) >>

Methods == {"POST", "GET", "DELETE"}

(* ----------------------------- responses ------------------------------- *)

\* status: the HTTP status; kind: the content ("json", or "html" for an error
\* page); body: a JSON object; items: a JSON array of objects; exc: the
\* exception that left the view function, if one did.
Response(status, kind, body, exc) ==
    [status |-> status, kind |-> kind, body |-> body, items |-> <<>>,
     exc |-> exc]

NoResponse == Response(0, "none", EmptyObj, "none")

\* An HTTPException raised by werkzeug/Flask: its own HTML error page.
HttpError(status) == Response(status, "html", EmptyObj, "none")

\* An exception that leaves the view function: Flask answers 500.
Unhandled(exc) == Response(500, "html", EmptyObj, exc)

(* ------------------------------ routing -------------------------------- *)

HexDigit ==
    {"0", "1", "2", "3", "4", "5", "6", "7", "8", "9",
     "a", "b", "c", "d", "e", "f", "A", "B", "C", "D", "E", "F"}

\* Mutant: the rules written "/articles/<article_id>", whose default string
\* converter takes any segment.
UuidConverter_String(arg) == Len(arg) > 0

\* The `uuid` converter of the rules "/articles/<uuid:article_id>": the
\* segment must be 8-4-4-4-12 hexadecimal digits.
UuidConverter(arg) ==
    /\ Len(arg) = 36
    /\ \A i \in 1..36 :
          IF i \in {9, 14, 19, 24} THEN arg[i] = "-" ELSE arg[i] \in HexDigit

\* The URL map built by create_app: the view function a request is routed
\* to, or the HTTP error of a request no rule matches.
Route(method, arg) ==
    IF arg = <<>>
    THEN CASE method = "POST" -> "create_article"
           [] method = "GET" -> "get_articles"
           [] OTHER -> "405"
    ELSE IF UuidConverter(arg)
         THEN CASE method = "GET" -> "get_article"
                [] method = "DELETE" -> "delete_article"
                [] OTHER -> "405"
         ELSE "404"

(* ------------------------------- store ---------------------------------- *)

\* The unique index on `_id` of a collection.
DuplicateKey(coll, key) == \E i \in 1..Len(coll) : coll[i]["_id"] = key

\* insert_one gives the document an ObjectId when it carries no `_id`.
WithId(doc, oid) ==
    IF "_id" \in DOMAIN doc THEN doc ELSE Put(doc, "_id", ObjectId(oid))

\* Mutant: the document replaces the collection's content.
StoreInsert_Replace(coll, doc) == <<doc>>

\* The collection after the store has accepted doc.
StoreInsert(coll, doc) == Append(coll, doc)

(* ----------------------- create_article, line by line ------------------- *)

\* Mutant: line 13 left out.
Stringified_Skipped(data) == data

\* Line 13: data["_id"] = str(data["_id"]).
Stringified(data) == Put(data, "_id", JStr(Str(data["_id"])))

\* jsonify can serialise everything but an ObjectId.
Serialisable(obj) == \A k \in DOMAIN obj : obj[k].t # "oid"

\* Mutant: the status left to Flask's default.
CreateResponse_Ok200(data) ==
    IF \A k \in DOMAIN data : data[k].t # "oid"
    THEN Response(200, "json", data, "none")
    ELSE Unhandled("TypeError")

\* Line 14: return jsonify(data), 201.
CreateResponse(data) ==
    IF Serialisable(data)
    THEN Response(201, "json", data, "none")
    ELSE Unhandled("TypeError")

\* A view function whose body is `...` returns None, which Flask refuses as
\* a response: TypeError, answered 500.
ViewReturnedNone == Unhandled("TypeError")

(* ------------------------------- state ---------------------------------- *)

VARIABLES
    pc,          \* pc[r]: where request r's thread is
    req,         \* req[r]: the HTTP request (method, path argument, body)
    data,        \* data[r]: the local `data` of create_article
    resp,        \* resp[r]: the HTTP response, once sent
    articles,    \* the articles collection, in insertion order
    nextOid,     \* the ObjectId generator of the driver
    calls,       \* calls[r]: store calls made while handling r
    owner,       \* owner[i]: the request that inserted articles[i]
    snap,        \* snap[r]: the collection when r made its store call
    doneBefore   \* doneBefore[r]: the requests answered before r arrived

vars ==
    <<pc, req, data, resp, articles, nextOid, calls, owner, snap, doneBefore>>

NoRequest == [method |-> "none", arg |-> <<>>, body |-> NoBody]

Init ==
    /\ pc = [r \in Reqs |-> "idle"]
    /\ req = [r \in Reqs |-> NoRequest]
    /\ data = [r \in Reqs |-> EmptyObj]
    /\ resp = [r \in Reqs |-> NoResponse]
    /\ articles = <<>>
    /\ nextOid = 1
    /\ calls = [r \in Reqs |-> 0]
    /\ owner = <<>>
    /\ snap = [r \in Reqs |-> <<>>]
    /\ doneBefore = [r \in Reqs |-> {}]

(* ------------------------------ actions --------------------------------- *)

\* A request arrives and Flask routes it: to a view function, or to the
\* HTTP error of the URL map.  Requests are numbered in order of arrival.
Dispatch(r) ==
    /\ pc[r] = "idle"
    /\ \A q \in Reqs : q < r => pc[q] # "idle"
    /\ \E m \in Methods, p \in 1..Len(PathInputs), b \in 1..Len(BodyInputs) :
          LET view == Route(m, PathInputs[p])
              body == IF view = "create_article" THEN BodyInputs[b] ELSE NoBody
          IN /\ view # "create_article" => b = 1
             /\ req' = [req EXCEPT ![r] =
                           [method |-> m, arg |-> PathInputs[p], body |-> body]]
             /\ IF view \in {"404", "405"}
                THEN /\ pc' = [pc EXCEPT ![r] = "done"]
                     /\ resp' = [resp EXCEPT ![r] =
                                    HttpError(IF view = "404" THEN 404 ELSE 405)]
                ELSE /\ pc' = [pc EXCEPT ![r] = view]
                     /\ UNCHANGED resp
    /\ doneBefore' = [doneBefore EXCEPT ![r] = {q \in Reqs : pc[q] = "done"}]
    /\ UNCHANGED <<data, articles, nextOid, calls, owner, snap>>

\* Mutant: line 11 followed by a check that author and content are present
\* and not empty, answering 400 otherwise.
GetJson_Validating(r) ==
    /\ pc[r] = "create_article"
    /\ IF \/ req[r].body.kind = "malformed"
          \/ /\ req[r].body.kind = "object"
             /\ \E k \in {"author", "content"} :
                   \/ k \notin DOMAIN req[r].body.obj
                   \/ req[r].body.obj[k] = JStr(<<>>)
       THEN /\ pc' = [pc EXCEPT ![r] = "done"]
            /\ resp' = [resp EXCEPT ![r] = HttpError(400)]
            /\ UNCHANGED data
       ELSE /\ pc' = [pc EXCEPT ![r] = "insert_one"]
            /\ data' = [data EXCEPT ![r] = req[r].body.obj]
            /\ UNCHANGED resp
    /\ UNCHANGED <<req, articles, nextOid, calls, owner, snap, doneBefore>>

\* create_article line 11: data = request.get_json(force=True).
GetJson(r) ==
    /\ pc[r] = "create_article"
    /\ IF req[r].body.kind = "malformed"
       THEN /\ pc' = [pc EXCEPT ![r] = "done"]
            /\ resp' = [resp EXCEPT ![r] = HttpError(400)]
            /\ UNCHANGED data
       ELSE /\ pc' = [pc EXCEPT ![r] = "insert_one"]
            /\ data' = [data EXCEPT ![r] = req[r].body.obj]
            /\ UNCHANGED resp
    /\ UNCHANGED <<req, articles, nextOid, calls, owner, snap, doneBefore>>

\* create_article line 12: src.database.mongo.db.articles.insert_one(data).
\* The store may be unreachable, and it rejects a duplicate `_id`; either
\* exception leaves the view function.
InsertOne(r) ==
    /\ pc[r] = "insert_one"
    /\ calls' = [calls EXCEPT ![r] = @ + 1]
    /\ snap' = [snap EXCEPT ![r] = articles]
    /\ IF req[r].body.kind # "object"
       THEN /\ pc' = [pc EXCEPT ![r] = "done"]
            /\ resp' = [resp EXCEPT ![r] = Unhandled("TypeError")]
            /\ UNCHANGED <<data, articles, nextOid, owner>>
       ELSE LET doc == WithId(data[r], nextOid)
            IN /\ data' = [data EXCEPT ![r] = doc]
               /\ nextOid' = IF "_id" \in DOMAIN data[r]
                             THEN nextOid ELSE nextOid + 1
               /\ \E up \in BOOLEAN :
                     IF ~up
                     THEN /\ pc' = [pc EXCEPT ![r] = "done"]
                          /\ resp' = [resp EXCEPT ![r] =
                                         Unhandled("ServerSelectionTimeoutError")]
                          /\ UNCHANGED <<articles, owner>>
                     ELSE IF DuplicateKey(articles, doc["_id"])
                     THEN /\ pc' = [pc EXCEPT ![r] = "done"]
                          /\ resp' = [resp EXCEPT ![r] =
                                         Unhandled("DuplicateKeyError")]
                          /\ UNCHANGED <<articles, owner>>
                     ELSE /\ pc' = [pc EXCEPT ![r] = "respond"]
                          /\ articles' = StoreInsert(articles, doc)
                          /\ owner' = Append(owner, r)
                          /\ UNCHANGED resp
    /\ UNCHANGED <<req, doneBefore>>

\* create_article lines 13-14: stringify the `_id`, answer 201 with data.
Respond(r) ==
    /\ pc[r] = "respond"
    /\ data' = [data EXCEPT ![r] = Stringified(data[r])]
    /\ resp' = [resp EXCEPT ![r] = CreateResponse(Stringified(data[r]))]
    /\ pc' = [pc EXCEPT ![r] = "done"]
    /\ UNCHANGED <<req, articles, nextOid, calls, owner, snap, doneBefore>>

\* get_article(article_id): the body is `...`.
GetArticle(r) ==
    /\ pc[r] = "get_article"
    /\ resp' = [resp EXCEPT ![r] = ViewReturnedNone]
    /\ pc' = [pc EXCEPT ![r] = "done"]
    /\ UNCHANGED <<req, data, articles, nextOid, calls, owner, snap, doneBefore>>

\* get_articles(): the body is `...`.
GetArticles(r) ==
    /\ pc[r] = "get_articles"
    /\ resp' = [resp EXCEPT ![r] = ViewReturnedNone]
    /\ pc' = [pc EXCEPT ![r] = "done"]
    /\ UNCHANGED <<req, data, articles, nextOid, calls, owner, snap, doneBefore>>

\* delete_article(article_id): the body is `...`.
DeleteArticle(r) ==
    /\ pc[r] = "delete_article"
    /\ resp' = [resp EXCEPT ![r] = ViewReturnedNone]
    /\ pc' = [pc EXCEPT ![r] = "done"]
    /\ UNCHANGED <<req, data, articles, nextOid, calls, owner, snap, doneBefore>>

Next ==
    \E r \in Reqs :
        \/ Dispatch(r)
        \/ GetJson(r)
        \/ InsertOne(r)
        \/ Respond(r)
        \/ GetArticle(r)
        \/ GetArticles(r)
        \/ DeleteArticle(r)

Spec == Init /\ [][Next]_vars

(* ---------------------- vocabulary of the properties -------------------- *)

\* r is a POST /articles request that has arrived.
IsCreate(r) == Route(req[r].method, req[r].arg) = "create_article"

\* r is a Create whose body is a JSON object.
ObjectCreate(r) == IsCreate(r) /\ req[r].body.kind = "object"

Answered(r) == pc[r] = "done"

\* r is an answered Create that succeeded.
Created(r) == Answered(r) /\ IsCreate(r) /\ resp[r].status = 201

\* The store accepted r's insert.
Inserted(r) == \E i \in 1..Len(owner) : owner[i] = r

\* The fields author, content and tags are all in the object.
HasArticleFields(obj) == {"author", "content", "tags"} \subseteq DOMAIN obj

\* Field k of the object is missing or the empty string.
MissingOrEmpty(obj, k) == k \notin DOMAIN obj \/ obj[k] = JStr(<<>>)

\* s is a prefix of t.
Prefix(s, t) == Len(s) <= Len(t) /\ \A i \in 1..Len(s) : s[i] = t[i]

\* The textual form of a UUID (RFC 4122): 36 characters, hyphens at
\* positions 9, 14, 19 and 24, hexadecimal digits elsewhere.
WellFormedUuid(chars) ==
    /\ Len(chars) = 36
    /\ \A i \in {9, 14, 19, 24} : chars[i] = "-"
    /\ \A i \in (1..36) \ {9, 14, 19, 24} : chars[i] \in HexDigit

\* A JSON string in the syntax of a UUID.
UuidString(v) == v.t = "str" /\ WellFormedUuid(v.s)

\* GET or DELETE of "/articles/<arg>" with an arg that is not a UUID.
BadIdRequest(r) ==
    /\ req[r].method \in {"GET", "DELETE"}
    /\ req[r].arg # <<>>
    /\ ~WellFormedUuid(req[r].arg)

\* Some article of the collection has the external identifier chars.
Persisted(chars) == \E i \in 1..Len(articles) : Str(articles[i]["_id"]) = chars

\* Every request but r was answered before r arrived, or has not arrived.
Alone(r) == \A q \in Reqs \ {r} : q \in doneBefore[r] \/ pc[q] = "idle"

(* -------------------------------- C1 ------------------------------------ *)

\* C1 as stated: every Create whose body is an object with author, content
\* and tags is answered 201 with every field of the request, unchanged, plus
\* exactly one more field.
C1_Original ==
    \A r \in Reqs :
        (Answered(r) /\ ObjectCreate(r) /\ HasArticleFields(req[r].body.obj)) =>
            /\ resp[r].status = 201
            /\ DOMAIN req[r].body.obj \subseteq DOMAIN resp[r].body
            /\ \A k \in DOMAIN req[r].body.obj :
                  resp[r].body[k] = req[r].body.obj[k]
            /\ Cardinality(DOMAIN resp[r].body \ DOMAIN req[r].body.obj) = 1

\* C1 amended: every Create whose body is an object with author, content and
\* tags and without `_id`, and whose insert the store accepts, is answered
\* 201 with a JSON object holding every field of the request, unchanged, plus
\* exactly one more field, `_id`.
C1_Amended ==
    \A r \in Reqs :
        ( /\ Answered(r) /\ ObjectCreate(r) /\ Inserted(r)
          /\ HasArticleFields(req[r].body.obj)
          /\ "_id" \notin DOMAIN req[r].body.obj ) =>
            /\ resp[r].status = 201
            /\ resp[r].kind = "json"
            /\ DOMAIN resp[r].body = DOMAIN req[r].body.obj \cup {"_id"}
            /\ \A k \in DOMAIN req[r].body.obj :
                  resp[r].body[k] = req[r].body.obj[k]

\* The test's request has been answered 201.
C1_Witness ==
    \E r \in Reqs :
        Created(r) /\ req[r].body.obj = TestBody /\ Inserted(r)

(* -------------------------------- C2 ------------------------------------ *)

\* C2 as stated: the identifiers of the persisted articles are pairwise
\* distinct, and no two successful Creates return the same identifier.
C2_Claim ==
    /\ \A i, j \in 1..Len(articles) :
          i # j => articles[i]["_id"] # articles[j]["_id"]
    /\ \A r, q \in Reqs :
          (r # q /\ Created(r) /\ Created(q)) =>
              resp[r].body["_id"] # resp[q].body["_id"]

(* -------------------------------- C3 ------------------------------------ *)

\* C3 as stated: a GetArticle that follows a successful Create and carries
\* the identifier it returned is answered 200 with the article.
C3_Claim ==
    \A c, g \in Reqs :
        ( /\ Created(c) /\ Answered(g) /\ c \in doneBefore[g]
          /\ req[g].method = "GET"
          /\ req[g].arg = resp[c].body["_id"].s ) =>
            /\ resp[g].status = 200
            /\ \A k \in {"author", "content", "tags"} \cap DOMAIN req[c].body.obj :
                  k \in DOMAIN resp[g].body /\ resp[g].body[k] = req[c].body.obj[k]
            /\ \E k \in DOMAIN resp[g].body : resp[g].body[k] = resp[c].body["_id"]

(* -------------------------------- C4 ------------------------------------ *)

\* C4 as stated: GetArticle with a well-formed UUID that no article of the
\* collection has is answered 404.
C4_Claim ==
    \A g \in Reqs :
        ( /\ Answered(g) /\ req[g].method = "GET"
          /\ WellFormedUuid(req[g].arg)
          /\ ~Persisted(req[g].arg) ) =>
            resp[g].status = 404

(* -------------------------------- C5 ------------------------------------ *)

\* C5 as stated: ListArticles after N successful Creates and M successful
\* Deletes is answered 200 with N - M articles of pairwise distinct ids (an
\* empty sequence for an empty collection).
C5_Claim ==
    \A g \in Reqs :
        (Answered(g) /\ req[g].method = "GET" /\ req[g].arg = <<>> /\ Alone(g)) =>
            LET N == Cardinality({c \in doneBefore[g] : Created(c)})
                M == Cardinality({d \in doneBefore[g] :
                                    req[d].method = "DELETE" /\ resp[d].status = 204})
            IN /\ resp[g].status = 200
               /\ Len(resp[g].items) = N - M
               /\ \A i, j \in 1..Len(resp[g].items) :
                     i # j => resp[g].items[i] # resp[g].items[j]

(* -------------------------------- C6 ------------------------------------ *)

\* C6 as stated: a Create whose author or content is missing or empty is
\* answered 400 without a store call, the collection left as it was.
C6_Original ==
    \A r \in Reqs :
        ( /\ Answered(r) /\ ObjectCreate(r)
          /\ \/ MissingOrEmpty(req[r].body.obj, "author")
             \/ MissingOrEmpty(req[r].body.obj, "content") ) =>
            /\ resp[r].status = 400
            /\ calls[r] = 0
            /\ ~Inserted(r)

\* C6 amended: a Create whose author or content is missing or empty is not
\* rejected: it makes the one insert_one call of any Create, and when the
\* store accepts the insert the body is persisted and the answer is 201.
C6_Amended ==
    \A r \in Reqs :
        ( /\ Answered(r) /\ ObjectCreate(r)
          /\ \/ MissingOrEmpty(req[r].body.obj, "author")
             \/ MissingOrEmpty(req[r].body.obj, "content") ) =>
            /\ resp[r].status # 400
            /\ calls[r] = 1
            /\ Inserted(r) <=> resp[r].status = 201
            /\ Inserted(r) =>
                  \E i \in 1..Len(articles) :
                      /\ owner[i] = r
                      /\ Without(articles[i], "_id")
                             = Without(req[r].body.obj, "_id")

\* A Create with an empty author has been answered 201.
C6_Witness ==
    \E r \in Reqs :
        /\ Created(r)
        /\ "author" \in DOMAIN req[r].body.obj
        /\ req[r].body.obj["author"] = JStr(<<>>)
        /\ Inserted(r)

(* -------------------------------- C7 ------------------------------------ *)

\* C7 as stated: every successful Create carries the identifier in the
\* response field `id`, a syntactically valid UUID string.
C7_Original ==
    \A r \in Reqs :
        Created(r) =>
            /\ "id" \in DOMAIN resp[r].body
            /\ UuidString(resp[r].body["id"])

\* C7 amended: every successful Create carries the identifier in the
\* response field `_id` (no field `id` is added): the string form of the
\* persisted document's native key, which for a key the store generated is
\* 24 hexadecimal digits and not a UUID.
C7_Amended ==
    \A r \in Reqs :
        Created(r) =>
            /\ "_id" \in DOMAIN resp[r].body
            /\ "id" \in DOMAIN resp[r].body => "id" \in DOMAIN req[r].body.obj
            /\ resp[r].body["_id"].t = "str"
            /\ \E i \in 1..Len(articles) :
                  /\ owner[i] = r
                  /\ resp[r].body["_id"].s = Str(articles[i]["_id"])
                  /\ articles[i]["_id"].t = "oid" =>
                        /\ Len(resp[r].body["_id"].s) = 24
                        /\ \A j \in 1..24 : resp[r].body["_id"].s[j] \in HexDigit
                        /\ ~UuidString(resp[r].body["_id"])

\* A Create without `_id` has been answered 201: the key is the store's.
C7_Witness ==
    \E r \in Reqs :
        /\ Created(r)
        /\ "_id" \notin DOMAIN req[r].body.obj
        /\ \E i \in 1..Len(articles) : owner[i] = r /\ articles[i]["_id"].t = "oid"

(* -------------------------------- C8 ------------------------------------ *)

\* C8 as stated: GET and DELETE of /articles/<arg> with an arg that is not a
\* well-formed UUID are answered 400, without a store call.
C8_Original ==
    \A r \in Reqs :
        (Answered(r) /\ BadIdRequest(r)) =>
            resp[r].status = 400 /\ calls[r] = 0

\* C8 amended: GET and DELETE of /articles/<arg> with an arg that is not a
\* well-formed UUID are answered 404 (Not Found, not 400) by the URL map: no
\* view function runs and no store call is made.
C8_Amended ==
    \A r \in Reqs :
        (pc[r] # "idle" /\ BadIdRequest(r)) =>
            /\ Answered(r)
            /\ resp[r].status = 404
            /\ resp[r].exc = "none"
            /\ calls[r] = 0

\* Both GET /articles/not-a-uuid and a DELETE with a bad id were answered.
C8_Witness ==
    /\ \E r \in Reqs :
          Answered(r) /\ req[r].method = "GET" /\ req[r].arg = NotAUuid
    /\ \E r \in Reqs :
          Answered(r) /\ req[r].method = "DELETE" /\ BadIdRequest(r)

(* -------------------------------- C9 ------------------------------------ *)

\* C9 as stated: when the store's insert fails during Create, the answer is
\* 503 with a JSON error body, no exception of the store leaves the view
\* function, and the collection is unchanged.
C9_Claim ==
    \A r \in Reqs :
        (Answered(r) /\ ObjectCreate(r) /\ calls[r] > 0 /\ ~Inserted(r)) =>
            /\ resp[r].status = 503
            /\ resp[r].kind = "json"
            /\ resp[r].exc = "none"
            /\ Prefix(snap[r], articles)

(* -------------------------------- C10 ----------------------------------- *)

\* C10: a successful Create makes exactly one store call, which adds exactly
\* one document, right after the documents persisted before it; the fields
\* of that document other than `_id` equal the request body field for field
\* (whatever fields it has), and the documents persisted before the call are
\* unchanged.
C10_Frame ==
    \A r \in Reqs :
        (IsCreate(r) /\ Inserted(r)) =>
            /\ calls[r] = 1
            /\ Cardinality({i \in 1..Len(owner) : owner[i] = r}) = 1
            /\ Len(articles) > Len(snap[r])
            /\ Len(articles) = Len(owner)
            /\ Prefix(snap[r], articles)
            /\ owner[Len(snap[r]) + 1] = r
            /\ Without(articles[Len(snap[r]) + 1], "_id")
                   = Without(req[r].body.obj, "_id")
            /\ "_id" \in DOMAIN articles[Len(snap[r]) + 1]

\* A Create with a field beyond author, content and tags has succeeded after
\* another article was persisted.
C10_Witness ==
    \E r \in Reqs :
        /\ Created(r)
        /\ "title" \in DOMAIN req[r].body.obj
        /\ Len(snap[r]) > 0

====
